---- MODULE Spec2Model ----
(***************************************************************************)
(* Model of the hate-speech experiment harness:                            *)
(*   loader/twitter.py  TwitterProcessor (CSV examples, BERT features)     *)
(*   utils/utils.py     metrics, text vectorisation, plotting helpers      *)
(*                                                                         *)
(* Python strings are sequences of one-character strings.  Every call is   *)
(* an action that draws its inputs from a bounded set and records the      *)
(* outcome in ret: [kind |-> "return", value |-> v] or                     *)
(* [kind |-> "raise", value |-> exception name].                           *)
(***************************************************************************)
EXTENDS Integers, Sequences, FiniteSets, TLC

VARIABLES
    self,    \* the TwitterProcessor object (its fields)
    pc,      \* position of the caller: "idle", "running", "returned"
    call,    \* name of the function called last
    args,    \* its arguments (and the files it reads)
    locals,  \* local variables of a function whose loop is stepped
    ret      \* its outcome

vars == <<self, pc, call, args, locals, ret>>

None == [kind |-> "None"]
Return(v) == [kind |-> "return", value |-> v]
Raise(e) == [kind |-> "raise", value |-> e]

\* The sequences over S of length 0..n.
SeqsUpTo(S, n) == UNION {[1..k -> S] : k \in 0..n}

\* The list with the elements f[1], ..., f[n], each computed once.
RECURSIVE List(_, _)
List(f, n) == IF n = 0 THEN <<>> ELSE Append(List(f, n - 1), f[n])

Min(a, b) == IF a <= b THEN a ELSE b
Max(a, b) == IF a >= b THEN a ELSE b

(***************************************************************************)
(* Python built-ins used by the code                                       *)
(***************************************************************************)
DigitChars == <<"0", "1", "2", "3", "4", "5", "6", "7", "8", "9">>

IsDigit(c) == \E d \in 1..10 : DigitChars[d] = c
DigitValue(c) == (CHOOSE d \in 1..10 : DigitChars[d] = c) - 1

\* str(n) / '%s' % n for n >= 0: the decimal digits, most significant first.
RECURSIVE py_str_int(_)
py_str_int(n) ==
    IF n < 10 THEN <<DigitChars[n + 1]>>
    ELSE py_str_int(n \div 10) \o <<DigitChars[(n % 10) + 1]>>

\* int(s) accepts a non-empty string of decimal digits (leading zeros allowed);
\* anything else in the modelled alphabet raises ValueError.
py_int_ok(s) == Len(s) > 0 /\ \A k \in 1..Len(s) : IsDigit(s[k])

RECURSIVE py_int(_)
py_int(s) ==
    IF Len(s) = 0 THEN 0
    ELSE 10 * py_int(SubSeq(s, 1, Len(s) - 1)) + DigitValue(s[Len(s)])

\* seq[:k], k possibly negative (counted from the end).
py_slice_to(seq, k) ==
    IF k >= 0 THEN SubSeq(seq, 1, Min(k, Len(seq)))
    ELSE SubSeq(seq, 1, Max(Len(seq) + k, 0))

\* [x] * n: the empty list when n <= 0.
py_repeat(x, n) == [k \in 1..Max(n, 0) |-> x]

(***************************************************************************)
(* loader/twitter.py: TwitterProcessor                                     *)
(***************************************************************************)
MaxSeqLength == 3   \* configs.max_seq_length ranges over 1..MaxSeqLength
MaxRows == 2        \* data rows of a csv file
MaxTextLen == 2     \* characters of a tweet given to get_features

Str_train == <<"t", "r", "a", "i", "n">>
Str_dev == <<"d", "e", "v">>
Str_test == <<"t", "e", "s", "t">>
SplitNames == {Str_train, Str_dev, Str_test}

\* os.path.join(data_dir, '%s.csv' % split), within the one data_dir.
CsvPath(split) == split \o <<".", "c", "s", "v">>
Paths == {CsvPath(s) : s \in SplitNames}

\* What csv.reader yields for a file: the header row, then the data rows; a
\* row is a list of cells and a cell is a string.
HeaderRow == <<<<"t", "e", "x", "t">>, <<"l", "a", "b", "e", "l">>>>
CsvFile(rows) == <<HeaderRow>> \o rows

\* Files of examples: a few tweets, labels that int() accepts and one it rejects.
SampleTexts == {<<"a">>, <<"b", "a">>}
LabelCells == {<<"0">>, <<"1">>, <<"1", "0">>, <<"x">>}
ExampleRows == {<<t, l>> : t \in SampleTexts, l \in LabelCells}
ExampleFiles == {CsvFile(r) : r \in SeqsUpTo(ExampleRows, MaxRows)}

\* Files for feature extraction: every tweet of up to MaxTextLen characters.
FeatureTexts == SeqsUpTo({"a", "b"}, MaxTextLen)
FeatureRows == {<<t, <<"1">>>> : t \in FeatureTexts}
FeatureFiles == {CsvFile(r) : r \in SeqsUpTo(FeatureRows, MaxRows)}

\* The data directory: the file under test at one split, and at every other
\* split a one-row file naming that split.
OtherFile(split) == CsvFile(<<<<split, <<"0">>>>>>)
DataDir(hot, file) ==
    [p \in Paths |->
        IF p = CsvPath(hot) THEN file
        ELSE OtherFile(CHOOSE s \in SplitNames : CsvPath(s) = p)]

\* guid='%s-%s' % (split, i)
format_guid_from_one(split, i) == split \o <<"-">> \o py_str_int(i + 1)
format_guid(split, i) == split \o <<"-">> \o py_str_int(i)

\* InputExample(text_a=..., guid=...) followed by example.label = label.
InputExample(guid, text_a, label) ==
    [guid |-> guid, text_a |-> text_a, label |-> label]

\* The loop of _create_examples over enumerate(reader) from 0-based position
\* i on; the parameter label is assigned in the loop before it is read.
RECURSIVE create_examples_loop(_, _, _, _, _, _)
create_examples_loop(obj, rows, split, i, label, examples) ==
    IF i >= Len(rows) THEN Return(examples)
    ELSE LET row == rows[i + 1]
             cell == row[obj.label_col + 1]
         IN IF ~py_int_ok(cell) THEN Raise("ValueError")
            ELSE LET label1 == py_int(cell)
                     example == InputExample(format_guid(split, i),
                                             row[obj.text_col + 1], label1)
                 IN create_examples_loop(obj, rows, split, i + 1, label1,
                                         Append(examples, example))

\* _create_examples(data_dir, split, label): next(reader) skips the header.
create_examples(obj, data_dir, split, label) ==
    LET reader == data_dir[CsvPath(split)]
    IN create_examples_loop(obj, Tail(reader), split, 0, label, <<>>)

get_train_examples(obj, data_dir, label) == create_examples(obj, data_dir, Str_train, label)
get_dev_examples(obj, data_dir, label) == create_examples(obj, data_dir, Str_dev, label)
get_test_examples(obj, data_dir, label) == create_examples(obj, data_dir, Str_test, label)

\* The tokenizer handed to the processor: a character-level tokenizer, one
\* token per character of the text.
tokenize(text) == text

Tok_CLS == "[CLS]"
Tok_SEP == "[SEP]"

\* tokenizer.convert_tokens_to_ids: ids of the BERT vocabulary, [UNK] otherwise.
token_id(tok) ==
    CASE tok = Tok_CLS -> 101
      [] tok = Tok_SEP -> 102
      [] tok = "a" -> 1037
      [] tok = "b" -> 1038
      [] OTHER -> 100
convert_tokens_to_ids(tokens) == [k \in 1..Len(tokens) |-> token_id(tokens[k])]

\* The body of the loop of get_features for one example.
example_feature(obj, example) ==
    LET tokens0 == tokenize(example.text_a)
        tokens1 == IF Len(tokens0) > obj.max_seq_length - 2
                   THEN py_slice_to(tokens0, obj.max_seq_length - 2)
                   ELSE tokens0
        tokens == <<Tok_CLS>> \o tokens1 \o <<Tok_SEP>>
        input_ids == convert_tokens_to_ids(tokens)
        padding == py_repeat(0, obj.max_seq_length - Len(input_ids))
    IN [text |-> input_ids \o padding, length |-> Len(tokens)]

get_features(obj, data_dir, split) ==
    LET examples == create_examples(obj, data_dir, split, None)
    IN IF examples.kind = "raise" THEN examples
       ELSE Return([k \in 1..Len(examples.value) |->
                        example_feature(obj, examples.value[k])])

\* TwitterProcessor(configs, feat_col=0, label_col=1, tokenizer)
TwitterProcessor(max_seq_length) ==
    [max_seq_length |-> max_seq_length, text_col |-> 0, label_col |-> 1,
     label_groups |-> <<0, 1>>]

InitTwitter ==
    /\ self \in {TwitterProcessor(m) : m \in 1..MaxSeqLength}
    /\ pc = "idle"
    /\ call = "none"
    /\ args = <<>>
    /\ locals = <<>>
    /\ ret = None

\* The optional argument label of the get_*_examples methods.
PyInt(n) == [kind |-> "int", value |-> n]
LabelArgs == {None, PyInt(0), PyInt(1)}

Returned(name, a, r) ==
    /\ pc' = "returned"
    /\ call' = name
    /\ args' = a
    /\ ret' = r
    /\ UNCHANGED <<self, locals>>

GetTrainExamples ==
    /\ pc = "idle"
    /\ \E hot \in SplitNames, file \in ExampleFiles, label \in LabelArgs :
         LET dir == DataDir(hot, file)
         IN Returned("get_train_examples",
                     [data_dir |-> dir, split |-> Str_train, label |-> label],
                     get_train_examples(self, dir, label))

GetDevExamples ==
    /\ pc = "idle"
    /\ \E hot \in SplitNames, file \in ExampleFiles, label \in LabelArgs :
         LET dir == DataDir(hot, file)
         IN Returned("get_dev_examples",
                     [data_dir |-> dir, split |-> Str_dev, label |-> label],
                     get_dev_examples(self, dir, label))

GetTestExamples ==
    /\ pc = "idle"
    /\ \E hot \in SplitNames, file \in ExampleFiles, label \in LabelArgs :
         LET dir == DataDir(hot, file)
         IN Returned("get_test_examples",
                     [data_dir |-> dir, split |-> Str_test, label |-> label],
                     get_test_examples(self, dir, label))

GetFeatures ==
    /\ pc = "idle"
    /\ \E split \in SplitNames, file \in FeatureFiles :
         LET dir == DataDir(split, file)
         IN Returned("get_features",
                     [data_dir |-> dir, split |-> split],
                     get_features(self, dir, split))

\* The caller takes the result and is ready for the next call; the locals of
\* the finished call are gone.
Continue ==
    /\ pc = "returned"
    /\ pc' = "idle"
    /\ call' = "none"
    /\ args' = <<>>
    /\ locals' = <<>>
    /\ ret' = None
    /\ UNCHANGED self

NextTwitter ==
    \/ GetTrainExamples
    \/ GetDevExamples
    \/ GetTestExamples
    \/ GetFeatures
    \/ Continue

SpecTwitter == InitTwitter /\ [][NextTwitter]_vars

GetterSplit(name) ==
    CASE name = "get_train_examples" -> Str_train
      [] name = "get_dev_examples" -> Str_dev
      [] name = "get_test_examples" -> Str_test

CalledGetter ==
    /\ pc = "returned"
    /\ call \in {"get_train_examples", "get_dev_examples", "get_test_examples"}

\* The data rows of the csv file of the split a getter is documented to read.
RowsRead == Tail(args.data_dir[CsvPath(GetterSplit(call))])

\* C1: get_features returns, for every example of the split and every positive
\* max_seq_length, a 'text' of exactly max_seq_length ids: the ids of [CLS],
\* of the leading tokens and of [SEP], then zeros.
C1_TextHasMaxSeqLength ==
    (pc = "returned" /\ call = "get_features" /\ ret.kind = "return") =>
        \A k \in 1..Len(ret.value) :
            Len(ret.value[k].text) = self.max_seq_length

\* C6: a getter whose csv file has an integer in every label cell returns one
\* example per data row, in file order: the i-th row (0-based) gives guid
\* '<split>-<i>', the row's text as text_a and the integer its label cell
\* spells as label, whatever the label argument; guids are pairwise distinct.
C6_OneExamplePerRow ==
    (CalledGetter /\ \A i \in 1..Len(RowsRead) : py_int_ok(RowsRead[i][2])) =>
        /\ ret.kind = "return"
        /\ Len(ret.value) = Len(RowsRead)
        /\ \A i \in 1..Len(RowsRead) :
             /\ ret.value[i].guid = GetterSplit(call) \o <<"-">> \o py_str_int(i - 1)
             /\ ret.value[i].text_a = RowsRead[i][1]
             /\ ret.value[i].label \in Nat
             /\ py_str_int(ret.value[i].label) = RowsRead[i][2]
        /\ \A i, j \in 1..Len(ret.value) :
             ret.value[i].guid = ret.value[j].guid => i = j

\* C6 witness: a getter called with a label argument returned two examples.
C6_Witness ==
    /\ CalledGetter
    /\ args.label # None
    /\ ret.kind = "return"
    /\ Len(ret.value) = 2
    /\ ret.value[2].label = 10

(***************************************************************************)
(* utils/utils.py: metrics                                                 *)
(***************************************************************************)
MaxPreds == 3   \* number of predictions given to the metric functions

RECURSIVE GCD(_, _)
GCD(a, b) == IF b = 0 THEN a ELSE GCD(b, a % b)

\* float64 values that are non-negative fractions, +inf or nan.
Frac(n, d) == [kind |-> "num", num |-> n \div GCD(n, d), den |-> d \div GCD(n, d)]
Inf == [kind |-> "inf"]
NaN == [kind |-> "nan"]

\* numpy true division of two non-negative integers: x / 0 is inf, 0 / 0 is
\* nan (a RuntimeWarning, no exception).
np_int_div(n, d) ==
    IF d # 0 THEN Frac(n, d)
    ELSE IF n # 0 THEN Inf ELSE NaN

\* numpy division of two finite non-negative float64 values.
np_div(x, y) ==
    IF y.num # 0 THEN Frac(x.num * y.den, x.den * y.num)
    ELSE IF x.num # 0 THEN Inf ELSE NaN

\* A dict as a function from its keys; d[k] = v.
EmptyDict == [k \in {} |-> 0]
dict_set(d, k, v) == [x \in DOMAIN d \cup {k} |-> IF x = k THEN v ELSE d[x]]

\* len(series[series == v])
RECURSIVE count_eq(_, _)
count_eq(series, v) ==
    IF series = <<>> THEN 0
    ELSE (IF Head(series) = v THEN 1 ELSE 0) + count_eq(Tail(series), v)

\* simple_accuracy: (preds == labels).mean()
RECURSIVE count_agree(_, _)
count_agree(preds, labels) ==
    IF preds = <<>> THEN 0
    ELSE (IF Head(preds) = Head(labels) THEN 1 ELSE 0)
         + count_agree(Tail(preds), Tail(labels))
simple_accuracy(preds, labels) == np_int_div(count_agree(preds, labels), Len(preds))

\* sklearn's binary precision, recall and F1 for the positive class 1; a zero
\* denominator gives 0.0 (zero_division='warn').
sk_ratio(n, d) == IF d = 0 THEN Frac(0, 1) ELSE Frac(n, d)
true_pos(preds, labels) ==
    Cardinality({i \in 1..Len(preds) : preds[i] = 1 /\ labels[i] = 1})

\* acc_and_f1: the entries computed from preds and labels alone; the weighted
\* averages and the ROC AUC (read from pred_probs) are further sklearn values
\* stored under their own keys and are not part of the model.
acc_and_f1(preds, labels, pred_probs) ==
    LET tp == true_pos(preds, labels)
        pp == count_eq(preds, 1)
        ap == count_eq(labels, 1)
    IN [k \in {"acc", "f1", "precision", "recall"} |->
          CASE k = "acc" -> simple_accuracy(preds, labels)
            [] k = "f1" -> sk_ratio(2 * tp, pp + ap)
            [] k = "precision" -> sk_ratio(tp, pp)
            [] k = "recall" -> sk_ratio(tp, ap)]

\* results_df: one row per prediction.
results_df(preds, in_group_labels_08, in_group_labels_06) ==
    [i \in 1..Len(preds) |->
        [pred |-> preds[i], is_aae_08 |-> in_group_labels_08[i],
         is_aae_06 |-> in_group_labels_06[i]]]

\* The group keys of a groupby: the distinct values in ascending order.
RECURSIVE sorted_keys(_)
sorted_keys(S) ==
    IF S = {} THEN <<>>
    ELSE LET m == CHOOSE x \in S : \A y \in S : x <= y
         IN <<m>> \o sorted_keys(S \ {m})

\* The 'pred' series of the rows of one group, in row order.
RECURSIVE group_series(_, _, _)
group_series(df, by, key) ==
    IF df = <<>> THEN <<>>
    ELSE (IF Head(df)[by] = key THEN <<Head(df).pred>> ELSE <<>>)
         \o group_series(Tail(df), by, key)

favorable_counts_ones(series) == count_eq(series, 1)
favorable(series) == count_eq(series, 0)
unfavorable(series) == count_eq(series, 1)

\* results_df.groupby(by).agg({'pred': ['count', favorable, unfavorable]})
\* .reset_index(): one row <<key, count, favorable, unfavorable>> per group;
\* columns are numbered from 0 as iloc numbers them.
favorable_counts(df, by) ==
    LET keys == sorted_keys({df[i][by] : i \in 1..Len(df)})
    IN [g \in 1..Len(keys) |->
          LET ser == group_series(df, by, keys[g])
          IN [c \in 0..3 |->
                CASE c = 0 -> keys[g]
                  [] c = 1 -> Len(ser)
                  [] c = 2 -> favorable(ser)
                  [] c = 3 -> unfavorable(ser)]]

\* favorable_counts_df.iloc[r, c], r and c counted from 0.
iloc(table, r, c) == table[r + 1][c]

\* One of the two blocks of compute_disparate_impact: when the table has the
\* shape (2, 4), the five entries for the column are stored under the suffix.
impact_entries(metrics_dict, df, by, suffix) ==
    LET favorable_counts_df == favorable_counts(df, by)
    IN IF Len(favorable_counts_df) # 2 THEN metrics_dict
       ELSE LET unpriv_ratio == np_int_div(iloc(favorable_counts_df, 0, 2),
                                           iloc(favorable_counts_df, 0, 1))
                priv_ratio == np_int_div(iloc(favorable_counts_df, 1, 2),
                                         iloc(favorable_counts_df, 1, 1))
                disparate_impact == np_div(unpriv_ratio, priv_ratio)
                d1 == dict_set(metrics_dict, "disparate_impact_" \o suffix, disparate_impact)
                d2 == dict_set(d1, "unpriv_ratio_" \o suffix, unpriv_ratio)
                d3 == dict_set(d2, "priv_ratio_" \o suffix, priv_ratio)
                d4 == dict_set(d3, "priv_n_" \o suffix, iloc(favorable_counts_df, 1, 1))
            IN dict_set(d4, "unpriv_n_" \o suffix, iloc(favorable_counts_df, 0, 1))

compute_disparate_impact(metrics_dict, preds, in_group_labels_08, in_group_labels_06) ==
    LET df == results_df(preds, in_group_labels_08, in_group_labels_06)
        m08 == impact_entries(metrics_dict, df, "is_aae_08", "0.8")
    IN impact_entries(m08, df, "is_aae_06", "0.6")

\* A positional call of compute_disparate_impact, which has four parameters:
\* any other number of arguments is a TypeError.
call_compute_disparate_impact(argv) ==
    IF Len(argv) # 4 THEN Raise("TypeError")
    ELSE Return(compute_disparate_impact(argv[1], argv[2], argv[3], argv[4]))

compute_metrics(preds, labels, pred_probs, in_group_labels_08, in_group_labels_06) ==
    IF Len(preds) # Len(labels) THEN Raise("AssertionError")
    ELSE LET metrics_dict == acc_and_f1(preds, labels, pred_probs)
         IN call_compute_disparate_impact(
                <<metrics_dict, preds, labels, pred_probs,
                  in_group_labels_08, in_group_labels_06>>)

GroupValues == {0, 1, 2}   \* values of the is_aae_08 / is_aae_06 columns
PredSeqs(n) == [1..n -> {0, 1}]

\* Dictionaries handed to compute_disparate_impact: a fresh one, and one that
\* already holds an accuracy and an older disparate impact.
MetricsDicts ==
    {EmptyDict,
     [k \in {"acc", "disparate_impact_0.8"} |->
        IF k = "acc" THEN Frac(1, 2) ELSE Frac(7, 1)]}

\* pred_probs of a classifier that is certain of each prediction.
ProbsOf(preds) == [i \in 1..Len(preds) |-> <<1 - preds[i], preds[i]>>]

InitMetrics ==
    /\ self = None
    /\ pc = "idle"
    /\ call = "none"
    /\ args = <<>>
    /\ locals = <<>>
    /\ ret = None

ComputeMetrics ==
    /\ pc = "idle"
    /\ \E n \in 1..MaxPreds, m \in 1..MaxPreds :
         \E preds \in PredSeqs(n), labels \in PredSeqs(m), g \in GroupValues :
            LET groups == [i \in 1..n |-> (g + i) % 2]
            IN Returned("compute_metrics",
                        [preds |-> preds, labels |-> labels,
                         pred_probs |-> ProbsOf(preds),
                         in_group_labels_08 |-> groups,
                         in_group_labels_06 |-> groups],
                        compute_metrics(preds, labels, ProbsOf(preds), groups, groups))

ComputeDisparateImpact ==
    /\ pc = "idle"
    /\ \E n \in 0..MaxPreds, metrics_dict \in MetricsDicts :
         \E preds \in PredSeqs(n), g08 \in [1..n -> GroupValues],
            g06 \in [1..n -> GroupValues] :
            Returned("compute_disparate_impact",
                     [metrics_dict |-> metrics_dict, preds |-> preds,
                      in_group_labels_08 |-> g08, in_group_labels_06 |-> g06],
                     Return(compute_disparate_impact(metrics_dict, preds, g08, g06)))

NextMetrics ==
    \/ ComputeMetrics
    \/ ComputeDisparateImpact
    \/ Continue

SpecMetrics == InitMetrics /\ [][NextMetrics]_vars

\* C2: compute_metrics on preds and labels of one length returns the dictionary
\* of acc_and_f1 extended by compute_disparate_impact for the two group
\* columns; on different lengths it fails on the assertion.
C2_ReturnsExtendedMetrics ==
    (pc = "returned" /\ call = "compute_metrics") =>
        IF Len(args.preds) = Len(args.labels)
        THEN ret = Return(compute_disparate_impact(
                       acc_and_f1(args.preds, args.labels, args.pred_probs),
                       args.preds, args.in_group_labels_08, args.in_group_labels_06))
        ELSE ret = Raise("AssertionError")

\* The numbers the claim C3 speaks of, counted over the predictions directly.
GroupOf(col, v) == {i \in 1..Len(args.preds) : col[i] = v}
GroupSize(col, v) == Cardinality(GroupOf(col, v))
GroupZeros(col, v) == Cardinality({i \in GroupOf(col, v) : args.preds[i] = 0})
ColumnValues(col) == {col[i] : i \in 1..Len(col)}
Smallest(S) == CHOOSE x \in S : \A y \in S : x <= y
Largest(S) == CHOOSE x \in S : \A y \in S : x >= y

\* x is the float64 value of n / d, for d > 0.
IsQuotient(x, n, d) == x.kind = "num" /\ x.num * d = x.den * n

\* The entries for one group column are as C3 says.
ImpactIsRatioOfRatios(col, suffix) ==
    LET lo == Smallest(ColumnValues(col))
        hi == Largest(ColumnValues(col))
        d == ret.value
    IN /\ {"disparate_impact_" \o suffix, "unpriv_ratio_" \o suffix,
           "priv_ratio_" \o suffix} \subseteq DOMAIN d
       /\ IsQuotient(d["unpriv_ratio_" \o suffix], GroupZeros(col, lo), GroupSize(col, lo))
       /\ IsQuotient(d["priv_ratio_" \o suffix], GroupZeros(col, hi), GroupSize(col, hi))
       /\ IF GroupZeros(col, hi) # 0
          THEN IsQuotient(d["disparate_impact_" \o suffix],
                          GroupZeros(col, lo) * GroupSize(col, hi),
                          GroupSize(col, lo) * GroupZeros(col, hi))
          ELSE d["disparate_impact_" \o suffix].kind =
                   IF GroupZeros(col, lo) # 0 THEN "inf" ELSE "nan"

\* C3: when a group column takes exactly two values, the recorded disparate
\* impact is unpriv_ratio / priv_ratio, each ratio being the share of
\* predictions equal to 0 in the group, 'unpriv' the group of the smaller
\* value and 'priv' the group of the larger one (a float64 division: inf or
\* nan when no prediction of the 'priv' group is 0); for both columns.
C3_DisparateImpact ==
    (pc = "returned" /\ call = "compute_disparate_impact") =>
        /\ Cardinality(ColumnValues(args.in_group_labels_08)) = 2 =>
               ImpactIsRatioOfRatios(args.in_group_labels_08, "0.8")
        /\ Cardinality(ColumnValues(args.in_group_labels_06)) = 2 =>
               ImpactIsRatioOfRatios(args.in_group_labels_06, "0.6")

\* C3 witness: both columns take two values, the groups differ between the
\* columns, and the 0.8 impact is a proper fraction other than 1.
C3_Witness ==
    /\ pc = "returned" /\ call = "compute_disparate_impact"
    /\ ColumnValues(args.in_group_labels_08) = {1, 2}
    /\ ColumnValues(args.in_group_labels_06) = {0, 2}
    /\ ret.value["disparate_impact_0.8"] = Frac(1, 2)
    /\ ret.value["disparate_impact_0.6"].kind = "inf"

(***************************************************************************)
(* utils/utils.py: text cleaning                                           *)
(***************************************************************************)
MaxTweets == 2     \* texts in the array given to remove_punctuation_tweet
MaxTweetLen == 2   \* characters of such a text

\* The printable ASCII characters in code order, from chr(32) on; "GRAVE"
\* stands for the grave accent chr(96), which a TLA+ string cannot hold.
AsciiTable ==
    <<
      " ", "!", "\"", "#", "$", "%", "&", "'", "(", ")", "*", "+",
      ",", "-", ".", "/", "0", "1", "2", "3", "4", "5", "6", "7",
      "8", "9", ":", ";", "<", "=", ">", "?", "@", "A", "B", "C",
      "D", "E", "F", "G", "H", "I", "J", "K", "L", "M", "N", "O",
      "P", "Q", "R", "S", "T", "U", "V", "W", "X", "Y", "Z", "[",
      "\\", "]", "^", "_", "GRAVE", "a", "b", "c", "d", "e", "f", "g",
      "h", "i", "j", "k", "l", "m", "n", "o", "p", "q", "r", "s",
      "t", "u", "v", "w", "x", "y", "z", "{", "|", "}", "~"
    >>

\* ord(c): the code of a character.
CodeOf == [c \in {AsciiTable[k] : k \in 1..Len(AsciiTable)} |->
             31 + CHOOSE k \in 1..Len(AsciiTable) : AsciiTable[k] = c]
ord(c) == CodeOf[c]
CharRange(lo, hi) == {AsciiTable[k - 31] : k \in ord(lo)..ord(hi)}

\* string.punctuation
string_punctuation ==
    <<
      "!", "\"", "#", "$", "%", "&", "'", "(", ")", "*", "+", ",",
      "-", ".", "/", ":", ";", "<", "=", ">", "?", "@", "[", "\\",
      "]", "^", "_", "GRAVE", "{", "|", "}", "~"
    >>

Chars(str) == {str[k] : k \in 1..Len(str)}

\* The characters of a string that are not in a set, in order.
RECURSIVE without_chars(_, _)
without_chars(str, set) ==
    IF str = <<>> THEN <<>>
    ELSE (IF Head(str) \in set THEN <<>> ELSE <<Head(str)>>)
         \o without_chars(Tail(str), set)

\* re.sub of the pattern backslash-period by the empty string: the pattern
\* matches the period alone.
re_sub_period(str) == without_chars(str, {"."})

\* The character set that a pattern of the form [...] compiles to, as the
\* parser of re reads it from position i on: a backslash makes the next
\* character a literal, x-y is the range of the codes from x to y, and a
\* closing bracket that is not the first item ends the set.  The result is
\* the set and the position of the closing bracket.
RECURSIVE parse_class(_, _, _)
parse_class(p, i, set) ==
    IF i > Len(p) THEN Raise("re.error")
    ELSE IF p[i] = "]" /\ i > 2 THEN Return([set |-> set, end |-> i])
    ELSE LET esc == p[i] = "\\"
             j == IF esc THEN i + 2 ELSE i + 1
         IN IF j > Len(p) THEN Raise("re.error")
            ELSE LET code1 == IF esc THEN p[i + 1] ELSE p[i]
                 IN IF p[j] # "-" THEN parse_class(p, j, set \cup {code1})
                    ELSE IF j + 1 > Len(p) THEN Raise("re.error")
                    ELSE IF p[j + 1] = "]"
                         THEN Return([set |-> set \cup {code1, "-"}, end |-> j + 1])
                    ELSE LET esc2 == p[j + 1] = "\\"
                             j2 == IF esc2 THEN j + 3 ELSE j + 2
                         IN IF j2 > Len(p) THEN Raise("re.error")
                            ELSE LET code2 == IF esc2 THEN p[j + 2] ELSE p[j + 1]
                                 IN IF ord(code2) < ord(code1) THEN Raise("re.error")
                                    ELSE parse_class(p, j2,
                                             set \cup CharRange(code1, code2))

\* re.compile(pattern) for a pattern that is one character set.
re_compile(pattern) == parse_class(pattern, 2, {})

\* re.sub(compiled, "", text): the characters of the set are dropped.
re_sub_class(compiled, text) == without_chars(text, compiled.value.set)

punctuation_no_period == <<"[">> \o re_sub_period(string_punctuation) \o <<"]">>
punctuation_no_period_compiled == re_compile(punctuation_no_period)

\* np.array([re.sub(punctuation_no_period, "", text) for text in text_array])
remove_punctuation_tweet(text_array) ==
    List([k \in 1..Len(text_array) |->
             re_sub_class(punctuation_no_period_compiled, text_array[k])],
         Len(text_array))

TweetChars == {"a", ".", ",", "\\"}
Tweets == SeqsUpTo(TweetChars, MaxTweetLen)

InitText ==
    /\ self = None
    /\ pc = "idle"
    /\ call = "none"
    /\ args = <<>>
    /\ locals = <<>>
    /\ ret = None

RemovePunctuationTweet ==
    /\ pc = "idle"
    /\ \E text_array \in SeqsUpTo(Tweets, MaxTweets) :
         Returned("remove_punctuation_tweet", [text_array |-> text_array],
                  Return(remove_punctuation_tweet(text_array)))

NextText ==
    \/ RemovePunctuationTweet
    \/ Continue

SpecText == InitText /\ [][NextText]_vars

\* The text with every punctuation character but the period dropped.
RECURSIVE KeepPeriods(_)
KeepPeriods(str) ==
    IF str = <<>> THEN <<>>
    ELSE (IF Head(str) \in Chars(string_punctuation) /\ Head(str) # "."
          THEN <<>> ELSE <<Head(str)>>) \o KeepPeriods(Tail(str))

\* C4: remove_punctuation_tweet returns as many texts as it is given, the
\* text at each index being the input text without its ASCII punctuation
\* characters other than the period, the other characters kept in order.
C4_PunctuationRemovedExceptPeriod ==
    (pc = "returned" /\ call = "remove_punctuation_tweet") =>
        /\ Len(ret.value) = Len(args.text_array)
        /\ \A k \in 1..Len(args.text_array) :
             ret.value[k] = KeepPeriods(args.text_array[k])

(***************************************************************************)
(* utils/utils.py: tfidf_vectorize.  With tf_idf=False the vectorizer is a *)
(* CountVectorizer, whose cells are counts; with tf_idf=True it is a        *)
(* TfidfVectorizer, whose cells are irrational weights, held here as the    *)
(* terms of their formula.  Texts hold lower-case ASCII only, so            *)
(* lowercasing and strip_accents leave them as they are; the one white      *)
(* space character among them is the space.                                 *)
(***************************************************************************)
MaxTrain == 3   \* training texts
MaxTopK == 2    \* top_k ranges over 1..MaxTopK

Str_char == "char"
Str_word == "word"

\* Lexicographic order of strings by character code: the order of sorted().
str_less(a, b) ==
    \E k \in 1..(Min(Len(a), Len(b)) + 1) :
        /\ \A m \in 1..(k - 1) : a[m] = b[m]
        /\ \/ k > Len(a) /\ k <= Len(b)
           \/ k <= Len(a) /\ k <= Len(b) /\ ord(a[k]) < ord(b[k])

RECURSIVE sorted_terms(_)
sorted_terms(S) ==
    IF S = {} THEN <<>>
    ELSE LET m == CHOOSE x \in S : \A y \in S \ {x} : str_less(x, y)
         IN <<m>> \o sorted_terms(S \ {m})

\* The char analyzer first replaces every run of two or more white space
\* characters by one space.
RECURSIVE white_spaces_sub(_)
white_spaces_sub(text) ==
    IF text = <<>> THEN <<>>
    ELSE IF Len(text) >= 2 /\ text[1] = " " /\ text[2] = " "
         THEN LET rest == white_spaces_sub(Tail(text))
              IN IF rest # <<>> /\ Head(rest) = " " THEN rest ELSE <<" ">> \o rest
    ELSE <<Head(text)>> \o white_spaces_sub(Tail(text))

\* The word analyzer finds the tokens of the default token_pattern, the
\* maximal runs of two or more word characters (letters, digits, underscore).
is_word_char(c) ==
    \/ ord(c) \in ord("0")..ord("9")
    \/ ord(c) \in ord("A")..ord("Z")
    \/ ord(c) \in ord("a")..ord("z")
    \/ c = "_"
RECURSIVE word_tokens(_, _)
word_tokens(text, run) ==
    LET found == IF Len(run) >= 2 THEN <<run>> ELSE <<>>
    IN IF text = <<>> THEN found
       ELSE IF is_word_char(Head(text))
            THEN word_tokens(Tail(text), Append(run, Head(text)))
       ELSE found \o word_tokens(Tail(text), <<>>)

\* sep.join(units)
RECURSIVE join(_, _)
join(units, sep) ==
    IF units = <<>> THEN <<>>
    ELSE IF Len(units) = 1 THEN Head(units)
    ELSE Head(units) \o sep \o join(Tail(units), sep)

\* The n-grams of a list of units for n from min_n to max_n, the shorter
\* first, each size from left to right.
RECURSIVE ngrams(_, _, _, _)
ngrams(units, min_n, max_n, sep) ==
    IF min_n > max_n THEN <<>>
    ELSE LET count == Max(0, Len(units) - min_n + 1)
         IN List([i \in 1..count |-> join(SubSeq(units, i, i + min_n - 1), sep)], count)
            \o ngrams(units, min_n + 1, max_n, sep)

\* build_analyzer()(text): the character n-grams or the word n-grams.
analyze(text, ngram_range, token_mode) ==
    IF token_mode = Str_char
    THEN LET doc == white_spaces_sub(text)
         IN ngrams(List([i \in 1..Len(doc) |-> <<doc[i]>>], Len(doc)),
                   ngram_range[1], ngram_range[2], <<>>)
    ELSE ngrams(word_tokens(text, <<>>), ngram_range[1], ngram_range[2], <<" ">>)

\* The texts of an array, analyzed.
analyzed_texts(texts, ngram_range, token_mode) ==
    List([d \in 1..Len(texts) |-> analyze(texts[d], ngram_range, token_mode)], Len(texts))

doc_terms(analyzed) == {analyzed[i] : i \in 1..Len(analyzed)}
term_count(term, analyzed) == Cardinality({i \in 1..Len(analyzed) : analyzed[i] = term})

\* A matrix: its shape, its rows and the type of its cells.
Matrix(rows, ncols, dtype) == [shape |-> <<Len(rows), ncols>>, data |-> rows, dtype |-> dtype]
astype(x, dtype) == [x EXCEPT !.dtype = dtype]

document_frequency(term, docs) ==
    Cardinality({d \in 1..Len(docs) : term \in doc_terms(docs[d])})

\* vectorizer.fit: the vocabulary learned from the given texts, sorted, the
\* terms in fewer than min_df texts pruned; ValueError when no term is found,
\* when min_df exceeds the number of texts or when no term remains.
fit_vocabulary(texts, ngram_range, token_mode, min_df) ==
    LET docs == analyzed_texts(texts, ngram_range, token_mode)
        found == UNION {doc_terms(docs[d]) : d \in 1..Len(docs)}
        kept == {t \in found : document_frequency(t, docs) >= min_df}
    IN IF found = {} \/ Len(texts) < min_df \/ kept = {} THEN Raise("ValueError")
       ELSE Return(sorted_terms(kept))

\* CountVectorizer.transform: one row of term counts per text ('dtype':
\* 'int32').
transform_counts(vocabulary, texts, ngram_range, token_mode) ==
    LET docs == analyzed_texts(texts, ngram_range, token_mode)
    IN Matrix(List([d \in 1..Len(texts) |->
                       List([j \in 1..Len(vocabulary) |-> term_count(vocabulary[j], docs[d])],
                            Len(vocabulary))],
                   Len(texts)),
              Len(vocabulary), "int32")

\* TfidfVectorizer.fit: the number of fitted texts and, for each term of the
\* vocabulary, the number of them that hold it; the idf of a term is
\* ln((1 + n) / (1 + df)) + 1.
fit_idf(vocabulary, texts, ngram_range, token_mode) ==
    LET docs == analyzed_texts(texts, ngram_range, token_mode)
    IN [n |-> Len(texts),
        df |-> List([j \in 1..Len(vocabulary) |-> document_frequency(vocabulary[j], docs)],
                    Len(vocabulary))]

\* A tf-idf weight: tf * idf(df) / norm, where norm is the l2 norm of the
\* row, the square root of the sum of c * (tf * idf(df)) ^ 2 over the
\* <<tf, df, c>> of norm, c cells of the row having that tf and df.  The
\* weight of an absent term is zero.
ZeroWeight == [tf |-> 0, df |-> 0, n |-> 0, norm |-> {}]
tfidf_weight(tf, df, n, norm) ==
    IF tf = 0 THEN ZeroWeight ELSE [tf |-> tf, df |-> df, n |-> n, norm |-> norm]
row_norm(row, df) ==
    {<<row[j], df[j], Cardinality({m \in 1..Len(row) : row[m] = row[j] /\ df[m] = df[j]})>> :
        j \in {j \in 1..Len(row) : row[j] > 0}}

\* TfidfTransformer.transform: check_array refuses an array without rows;
\* otherwise the counts are weighted and each row is l2-normalised.  The
\* vectorizer converts the dtype 'int32' it is given to float64.
tfidf_transform(x, idf) ==
    IF x.shape[1] = 0 THEN Raise("ValueError")
    ELSE Return(Matrix(List([d \in 1..x.shape[1] |->
                                List([j \in 1..x.shape[2] |->
                                         tfidf_weight(x.data[d][j], idf.df[j], idf.n,
                                                      row_norm(x.data[d], idf.df))],
                                     x.shape[2])],
                            x.shape[1]),
                       x.shape[2], "float64"))

\* vectorizer.transform of the fitted CountVectorizer or TfidfVectorizer.
vectorizer_transform(vocabulary, idf, texts, ngram_range, token_mode, tf_idf) ==
    LET counts == transform_counts(vocabulary, texts, ngram_range, token_mode)
    IN IF tf_idf THEN tfidf_transform(counts, idf) ELSE Return(counts)

RECURSIVE sum_seq(_)
sum_seq(q) == IF q = <<>> THEN 0 ELSE Head(q) + sum_seq(Tail(q))
RECURSIVE prod_seq(_)
prod_seq(q) == IF q = <<>> THEN 1 ELSE Head(q) * prod_seq(Tail(q))

\* f_classif: the one-way ANOVA F value of a feature column x for the class
\* labels y, as the real number that the floating-point score rounds.  With
\* cs the classes, n_c and s_c the size and the sum of class c, p the
\* product of the n_c:
\*   ssbn * n * p = bn,  sswn * p = wn,  F = (ssbn / dfbn) / (sswn / dfwn).
\* On integer counts the zero sums of squares are computed without rounding,
\* so nan (0 / 0) and inf (x / 0) are the scores of the code itself.
f_value(x, y) ==
    LET n == Len(x)
        cs == sorted_keys({y[i] : i \in 1..n})
        n_c == List([c \in 1..Len(cs) |-> Cardinality({i \in 1..n : y[i] = cs[c]})],
                    Len(cs))
        s_c == List([c \in 1..Len(cs) |->
                       sum_seq(List([i \in 1..n |-> IF y[i] = cs[c] THEN x[i] ELSE 0], n))],
                    Len(cs))
        p == prod_seq(n_c)
        between == sum_seq(List([c \in 1..Len(cs) |-> s_c[c] * s_c[c] * (p \div n_c[c])],
                                Len(cs)))
        bn == n * between - sum_seq(x) * sum_seq(x) * p
        wn == sum_seq(List([i \in 1..n |-> x[i] * x[i]], n)) * p - between
        dfbn == Len(cs) - 1
        dfwn == n - Len(cs)
    IN IF dfbn = 0 \/ dfwn = 0 THEN NaN
       ELSE IF wn = 0 THEN (IF bn = 0 THEN NaN ELSE Inf)
       ELSE Frac(bn * dfwn, n * dfbn * wn)

\* f_classif on a column of tf-idf weights.  The score is nan, as on counts,
\* when there is one class or one text per class: the sums of squares are
\* then computed alike and cancel.  Otherwise it is a float that depends on
\* the rounding of the weights.  The training texts of a call are of two
\* kinds at most (TrainDocs), so a column takes two values at most and is an
\* affine image of the column that tells the kinds apart: all columns have
\* one real F value, or 0 / 0, and no order of their floats is certain.
Float == [kind |-> "float"]
f_value_float(x, y) ==
    LET n == Len(x)
        classes == Cardinality({y[i] : i \in 1..n})
    IN IF classes - 1 = 0 \/ n - classes = 0 THEN NaN ELSE Float
f_classif(x, y, dtype) == IF dtype = "int32" THEN f_value(x, y) ELSE f_value_float(x, y)

\* Order of the scores after _clean_nans, where it is certain: nan is the
\* least float, inf the greatest.  Scores that differ as real numbers
\* differ by far more than the rounding of the floats, which are therefore
\* in the same order.
score_less(a, b) ==
    CASE a.kind = "float" \/ b.kind = "float" -> FALSE
      [] a.kind = "nan" -> b.kind # "nan"
      [] a.kind = "inf" -> FALSE
      [] OTHER -> \/ b.kind = "inf"
                  \/ b.kind = "num" /\ a.num * b.den < b.num * a.den

\* SelectKBest(f_classif, k).fit(x_train, train_labels): the masks of the k
\* features that can come last in the stable ascending sort of the float
\* scores.  Columns whose real scores differ are in the order of these.
\* Columns with the same real score have the same float, and are then in
\* the order of their indices, when they are both nan, both inf or hold the
\* same cells; otherwise the floats are two roundings of one number and
\* can be in either order or equal.  sure are the columns above the cut,
\* edge the tie that the cut divides, S the columns kept of it.
select_k_best(x_train, train_labels, k) ==
    LET ncols == x_train.shape[2]
        nrows == x_train.shape[1]
        cols == 1..ncols
        column == List([j \in cols |-> List([d \in 1..nrows |-> x_train.data[d][j]], nrows)],
                       ncols)
        score == List([j \in cols |-> f_classif(column[j], train_labels, x_train.dtype)],
                      ncols)
        above(j) == Cardinality({m \in cols : score_less(score[j], score[m])})
        tie(j) == Cardinality({m \in cols : score[m] = score[j]})
        sure == {j \in cols : above(j) + tie(j) <= k}
        edge == {j \in cols : above(j) < k /\ above(j) + tie(j) > k}
        equal_floats(i, j) == score[i].kind \in {"nan", "inf"} \/ column[i] = column[j]
        cut(S, j) == \E i \in edge : equal_floats(i, j) /\ ((i \in S) # (j \in S))
        stable(S) ==
            \A i \in S, j \in edge \ S :
                (equal_floats(i, j) \/ (cut(S, i) /\ cut(S, j))) => j < i
    IN {List([j \in cols |-> j \in sure \cup S], ncols) :
          S \in {S \in SUBSET edge :
                   Cardinality(S) = k - Cardinality(sure) /\ stable(S)}}

\* selector.transform: check_array refuses an array without rows; otherwise
\* the columns of the mask, in their order.
RECURSIVE kept_columns(_, _)
kept_columns(row, mask) ==
    IF row = <<>> THEN <<>>
    ELSE (IF Head(mask) THEN <<Head(row)>> ELSE <<>>)
         \o kept_columns(Tail(row), Tail(mask))
selector_transform(x, mask) ==
    IF x.shape[1] = 0 THEN Raise("ValueError")
    ELSE Return(Matrix(List([d \in 1..x.shape[1] |-> kept_columns(x.data[d], mask)],
                            x.shape[1]),
                       Cardinality({j \in 1..Len(mask) : mask[j]}), x.dtype))

\* The texts the vectorizer is fitted on, and the k given to SelectKBest.
fit_texts(train_texts, val_texts, test_texts) == train_texts
selector_k_all(top_k, n_features) == n_features
selector_k(top_k, n_features) == Min(top_k, n_features)

\* tfidf_vectorize: the outcomes the call can have, each with the fitted
\* vocabulary and the mask of the selector (empty when it was not fitted).
tfidf_vectorize(train_texts, train_labels, val_texts, test_texts, ngram_range, top_k, token_mode, min_document_frequency, tf_idf) ==
    LET train == remove_punctuation_tweet(train_texts)
        val == remove_punctuation_tweet(val_texts)
        test == remove_punctuation_tweet(test_texts)
        fit_on == fit_texts(train, val, test)
        fitted == fit_vocabulary(fit_on, ngram_range, token_mode, min_document_frequency)
    IN IF fitted.kind = "raise"
       THEN {[outcome |-> fitted, vocabulary |-> <<>>, support |-> <<>>]}
       ELSE LET vocabulary == fitted.value
                idf == fit_idf(vocabulary, fit_on, ngram_range, token_mode)
                x_train == vectorizer_transform(vocabulary, idf, train, ngram_range,
                                                token_mode, tf_idf)
                x_val == vectorizer_transform(vocabulary, idf, val, ngram_range,
                                              token_mode, tf_idf)
                x_test == vectorizer_transform(vocabulary, idf, test, ngram_range,
                                               token_mode, tf_idf)
                selected(support) ==
                    LET s_train == selector_transform(x_train.value, support)
                        s_val == selector_transform(x_val.value, support)
                        s_test == selector_transform(x_test.value, support)
                    IN IF s_train.kind = "raise" THEN s_train
                       ELSE IF s_val.kind = "raise" THEN s_val
                       ELSE IF s_test.kind = "raise" THEN s_test
                       ELSE Return(<<astype(s_train.value, "float32"),
                                     astype(s_val.value, "float32"),
                                     astype(s_test.value, "float32")>>)
            IN IF x_train.kind = "raise" \/ x_val.kind = "raise" \/ x_test.kind = "raise"
               THEN {[outcome |-> IF x_train.kind = "raise" THEN x_train
                                  ELSE IF x_val.kind = "raise" THEN x_val ELSE x_test,
                      vocabulary |-> vocabulary, support |-> <<>>]}
               ELSE {[outcome |-> selected(support), vocabulary |-> vocabulary,
                      support |-> support] :
                       support \in select_k_best(x_train.value, train_labels,
                                                 selector_k(top_k, x_train.value.shape[2]))}

\* The texts of the calls, by token_mode.
TrainDocs(token_mode) ==
    IF token_mode = Str_char
    THEN {<<"a", "a", "b">>, <<"b", ".", "a">>}
    ELSE {<<"a", "b", " ", "c", "c">>, <<"c", "c", " ", ".", "a">>}
ValDocs(token_mode) ==
    IF token_mode = Str_char
    THEN {<<"c", " ", ".", "a">>}
    ELSE {<<"c", "c", " ", "a", "b">>}
TestDocs(token_mode) ==
    IF token_mode = Str_char
    THEN {<<"b", ".", "a">>}
    ELSE {<<"a", "b", " ", "c", "c">>}
NgramRanges == {<<1, 1>>, <<1, 2>>}

InitTfidf ==
    /\ self = None
    /\ pc = "idle"
    /\ call = "none"
    /\ args = <<>>
    /\ locals = <<>>
    /\ ret = None

\* The call of tfidf_vectorize with its arguments.
TfidfVectorizeCall ==
    /\ pc = "idle"
    /\ \E n \in 0..MaxTrain, ngram_range \in NgramRanges, top_k \in 1..MaxTopK,
          token_mode \in {Str_char, Str_word}, min_df \in 1..2, tf_idf \in BOOLEAN :
         \E train_texts \in [1..n -> TrainDocs(token_mode)],
            train_labels \in [1..n -> {0, 1}],
            val_texts \in SeqsUpTo(ValDocs(token_mode), 1),
            test_texts \in SeqsUpTo(TestDocs(token_mode), 1) :
            /\ pc' = "running"
            /\ call' = "tfidf_vectorize"
            /\ args' = [train_texts |-> train_texts, train_labels |-> train_labels,
                        val_texts |-> val_texts, test_texts |-> test_texts,
                        ngram_range |-> ngram_range, top_k |-> top_k,
                        token_mode |-> token_mode,
                        min_document_frequency |-> min_df, tf_idf |-> tf_idf]
    /\ UNCHANGED <<self, locals, ret>>

\* The body of tfidf_vectorize, run to its return or to the exception.
TfidfVectorizeReturn ==
    /\ pc = "running" /\ call = "tfidf_vectorize"
    /\ \E run \in tfidf_vectorize(args.train_texts, args.train_labels, args.val_texts,
                                  args.test_texts, args.ngram_range, args.top_k,
                                  args.token_mode, args.min_document_frequency,
                                  args.tf_idf) :
         /\ pc' = "returned"
         /\ locals' = [vocabulary |-> run.vocabulary, support |-> run.support]
         /\ ret' = run.outcome
    /\ UNCHANGED <<self, call, args>>

NextTfidf ==
    \/ TfidfVectorizeCall
    \/ TfidfVectorizeReturn
    \/ Continue

SpecTfidf == InitTfidf /\ [][NextTfidf]_vars

CalledTfidf == pc = "returned" /\ call = "tfidf_vectorize"

\* The vocabulary of the training texts: the n-grams found in at least
\* min_document_frequency of the cleaned and analyzed training texts.
VocabularyOf(docs, min_df) ==
    {t \in UNION {doc_terms(docs[d]) : d \in 1..Len(docs)} :
        Cardinality({d \in 1..Len(docs) : term_count(t, docs[d]) > 0}) >= min_df}
CleanTrain == remove_punctuation_tweet(args.train_texts)
TrainVocabulary ==
    VocabularyOf(analyzed_texts(CleanTrain, args.ngram_range, args.token_mode),
                 args.min_document_frequency)

\* The counts or weights of the terms of a vocabulary in the training
\* texts.
TrainMatrix(clean, vocabulary) ==
    vectorizer_transform(vocabulary,
                         fit_idf(vocabulary, clean, args.ngram_range, args.token_mode),
                         clean, args.ngram_range, args.token_mode, args.tf_idf).value

\* C5: the three matrices tfidf_vectorize returns have min(top_k, size of the
\* training vocabulary) columns each, hence at most top_k, and one row per
\* text of their split; the vocabulary, the kept features and x_train are
\* those that the training texts and labels give, whatever the validation
\* and test texts are.
C5_FeatureCount ==
    (CalledTfidf /\ ret.kind = "return") =>
        LET clean == CleanTrain
            learned == TrainVocabulary
            k == Min(args.top_k, Cardinality(learned))
            matrix == TrainMatrix(clean, locals.vocabulary)
        IN /\ ret.value[1].shape = <<Len(args.train_texts), k>>
           /\ ret.value[2].shape = <<Len(args.val_texts), k>>
           /\ ret.value[3].shape = <<Len(args.test_texts), k>>
           /\ \A s \in 1..3 : \A d \in 1..ret.value[s].shape[1] :
                 Len(ret.value[s].data[d]) = k
           /\ k <= args.top_k
           /\ {locals.vocabulary[j] : j \in 1..Len(locals.vocabulary)} = learned
           /\ locals.support \in select_k_best(matrix, args.train_labels, k)
           /\ ret.value[1] = astype(selector_transform(matrix, locals.support).value,
                                    "float32")

\* C5 witness: a call with tf-idf weights on word n-grams with a validation
\* and a test text, where the training vocabulary has more than top_k terms
\* and the scores decide what is kept: the first feature is kept, the last
\* is not.
C5_Witness ==
    /\ CalledTfidf /\ ret.kind = "return"
    /\ args.token_mode = Str_word /\ args.tf_idf
    /\ Len(args.val_texts) = 1 /\ Len(args.test_texts) = 1
    /\ Len(args.train_texts) = 3
    /\ Cardinality(TrainVocabulary) > args.top_k
    /\ args.top_k = 2
    /\ locals.support[1] /\ ~locals.support[Len(locals.support)]
    /\ ret.value[1].shape[2] = 2

(***************************************************************************)
(* utils/utils.py: glove_vectorize.  The vocabulary is what                *)
(* vectorizer.get_vocabulary() returns after adapt: the padding token and  *)
(* the OOV token, then the distinct words of the training texts.  The      *)
(* GloVe file is a list of lines, each a word and its parsed coefficients. *)
(* The loop over word_index.items() is stepped one item at a time.         *)
(***************************************************************************)
MaxVocWords == 2     \* words of the vocabulary after the two special tokens
MaxGloveLines == 2   \* lines of the GloVe file

embedding_dim == 100

VocWords == {"the", "cat", "sat"}
GloveWords == {"the", "dog", "[UNK]"}
GloveVectors ==
    {[j \in 1..embedding_dim |-> 1], [j \in 1..embedding_dim |-> IF j = 1 THEN 3 ELSE 0]}
GloveLine(word, coefs) == [word |-> word, coefs |-> coefs]
GloveFiles ==
    SeqsUpTo({GloveLine(w, v) : w \in GloveWords, v \in GloveVectors}, MaxGloveLines)

Distinct(q) == \A i, j \in 1..Len(q) : q[i] = q[j] => i = j
Vocabularies ==
    {<<"", "[UNK]">> \o w : w \in {q \in SeqsUpTo(VocWords, MaxVocWords) : Distinct(q)}}

\* dict(zip(voc, range(len(voc)))), as the list of its items in insertion
\* order: a word met again keeps its place and takes the later index.
RECURSIVE zip_items(_, _, _)
zip_items(voc, i, items) ==
    IF i >= Len(voc) THEN items
    ELSE LET word == voc[i + 1]
             seen == \E k \in 1..Len(items) : items[k][1] = word
         IN zip_items(voc, i + 1,
                IF seen
                THEN [k \in 1..Len(items) |->
                         IF items[k][1] = word THEN <<word, i>> ELSE items[k]]
                ELSE Append(items, <<word, i>>))

\* The loop that fills embeddings_index from the lines of the file.
RECURSIVE read_glove(_, _)
read_glove(lines, embeddings_index) ==
    IF lines = <<>> THEN embeddings_index
    ELSE read_glove(Tail(lines),
                    dict_set(embeddings_index, Head(lines).word, Head(lines).coefs))

\* embeddings_index.get(word)
dict_get(d, k) == IF k \in DOMAIN d THEN d[k] ELSE None

\* np.zeros((rows, cols))
np_zeros(rows, cols) == [r \in 1..rows |-> [c \in 1..cols |-> 0]]

\* embedding_matrix[i] = embedding_vector, i counted from 0.
set_row_after(matrix, i, vector) == [matrix EXCEPT ![i + 2] = vector]
set_row(matrix, i, vector) == [matrix EXCEPT ![i + 1] = vector]

InitGlove ==
    /\ self = None
    /\ pc = "idle"
    /\ call = "none"
    /\ args = <<>>
    /\ locals = <<>>
    /\ ret = None

\* glove_vectorize up to the loop: the vocabulary, the word index, the
\* embeddings read from the file, the counters and the zero matrix.
GloveVectorizeCall ==
    /\ pc = "idle"
    /\ \E voc \in Vocabularies, glove_file \in GloveFiles :
         /\ pc' = "running"
         /\ call' = "glove_vectorize"
         /\ args' = [voc |-> voc, glove_file |-> glove_file]
         /\ locals' = [voc |-> voc,
                       items |-> zip_items(voc, 0, <<>>),
                       done |-> 0,
                       embeddings_index |-> read_glove(glove_file, EmptyDict),
                       num_tokens |-> Len(voc) + 2,
                       hits |-> 0,
                       misses |-> 0,
                       embedding_matrix |-> np_zeros(Len(voc) + 2, embedding_dim)]
    /\ UNCHANGED <<self, ret>>

\* One iteration of the loop over word_index.items().
GloveLoopStep ==
    /\ pc = "running" /\ call = "glove_vectorize"
    /\ locals.done < Len(locals.items)
    /\ LET word == locals.items[locals.done + 1][1]
           i == locals.items[locals.done + 1][2]
           embedding_vector == dict_get(locals.embeddings_index, word)
       IN locals' =
            IF embedding_vector # None
            THEN [locals EXCEPT !.embedding_matrix = set_row(@, i, embedding_vector),
                                !.hits = @ + 1,
                                !.done = @ + 1]
            ELSE [locals EXCEPT !.misses = @ + 1, !.done = @ + 1]
    /\ UNCHANGED <<self, pc, call, args, ret>>

\* After the loop: the embedding layer is built from the matrix and returned
\* (with the vectorized texts, which the model leaves out).
GloveVectorizeReturn ==
    /\ pc = "running" /\ call = "glove_vectorize"
    /\ locals.done = Len(locals.items)
    /\ pc' = "returned"
    /\ ret' = Return([input_dim |-> locals.num_tokens,
                      output_dim |-> embedding_dim,
                      embeddings |-> locals.embedding_matrix])
    /\ UNCHANGED <<self, call, args, locals>>

NextGlove ==
    \/ GloveVectorizeCall
    \/ GloveLoopStep
    \/ GloveVectorizeReturn
    \/ Continue

SpecGlove == InitGlove /\ [][NextGlove]_vars

GloveDone == pc = "returned" /\ call = "glove_vectorize"

ZeroVector == [c \in 1..embedding_dim |-> 0]

\* The coefficients of the last line of the file for a word.
InGlove(word) == \E k \in 1..Len(args.glove_file) : args.glove_file[k].word = word
GloveVectorOf(word) ==
    LET last == CHOOSE k \in 1..Len(args.glove_file) :
                    /\ args.glove_file[k].word = word
                    /\ \A m \in (k + 1)..Len(args.glove_file) :
                          args.glove_file[m].word # word
    IN args.glove_file[last].coefs

\* C7: when glove_vectorize is done the embedding matrix has len(voc) + 2
\* rows, the row of every vocabulary word is its GloVe vector if the file has
\* the word and zero otherwise, the two extra rows are zero, and
\* hits + misses = len(voc).
C7_EmbeddingMatrix ==
    GloveDone =>
        LET voc == args.voc
            matrix == ret.value.embeddings
        IN /\ Len(matrix) = Len(voc) + 2
           /\ \A i \in 0..(Len(voc) - 1) :
                 matrix[i + 1] = IF InGlove(voc[i + 1]) THEN GloveVectorOf(voc[i + 1])
                                 ELSE ZeroVector
           /\ matrix[Len(voc) + 1] = ZeroVector
           /\ matrix[Len(voc) + 2] = ZeroVector
           /\ locals.hits + locals.misses = Len(voc)

\* C7 witness: a finished call with a hit and misses, where the file names
\* one vocabulary word twice with different vectors and the later one is
\* the row of the word.
C7_Witness ==
    /\ GloveDone
    /\ locals.hits = 1 /\ locals.misses = 3
    /\ args.voc[4] = "the"
    /\ Len(args.glove_file) = 2
    /\ args.glove_file[1].word = "the"
    /\ args.glove_file[2].word = "the"
    /\ args.glove_file[1].coefs # args.glove_file[2].coefs
    /\ ret.value.embeddings[4] = args.glove_file[2].coefs

(***************************************************************************)
(* utils/utils.py: plotting helpers                                        *)
(***************************************************************************)
MaxColumns == 36      \* columns to plot: get_middle_factors(1..MaxColumns)
MaxTimingTens == 6    \* X_train and X_test have 10, 20, ..., 10 * MaxTimingTens rows

PyTuple(items) == [kind |-> "tuple", items |-> items]

\* int(np.sqrt(n))
isqrt(n) == CHOOSE r \in 0..n : r * r <= n /\ (r + 1) * (r + 1) > n

\* range(start, stop, step) as the list of its values.
RECURSIVE py_range(_, _, _)
py_range(start, stop, step) ==
    IF start >= stop THEN <<>> ELSE <<start>> \o py_range(start + step, stop, step)

\* reduce(list.__add__, ([i, n // i] for i in candidates if n % i == 0))
RECURSIVE factor_pairs(_, _)
factor_pairs(n, candidates) ==
    IF candidates = <<>> THEN <<>>
    ELSE (IF n % Head(candidates) = 0
          THEN <<Head(candidates), n \div Head(candidates)>> ELSE <<>>)
         \o factor_pairs(n, Tail(candidates))

get_middle_factors(n) ==
    LET step == IF n % 2 # 0 THEN 2 ELSE 1
        pairs == factor_pairs(n, py_range(1, isqrt(n) + 1, step))
        factors == sorted_keys({pairs[k] : k \in 1..Len(pairs)})
        mid == Len(factors) \div 2
    IN IF Len(factors) > 3 /\ Len(factors) % 2 = 0
       THEN PyTuple(<<factors[mid], factors[mid + 1]>>)
       ELSE IF Len(factors) > 2 /\ Len(factors) % 2 # 0
       THEN PyTuple(<<factors[mid + 1], factors[mid + 1]>>)
       ELSE IF Len(factors) > 1
       THEN PyTuple(<<factors[1], factors[2]>>)
       ELSE PyInt(0)

\* nrows, ncols = get_middle_factors(num_cols), then one axis per cell of the
\* grid, zipped with the columns: the number of columns that get a subplot.
subplot_grid(num_cols) ==
    LET middle == get_middle_factors(num_cols)
    IN IF middle.kind # "tuple" THEN Raise("TypeError")
       ELSE Return([nrows |-> middle.items[1], ncols |-> middle.items[2],
                    plotted |-> Min(num_cols, middle.items[1] * middle.items[2])])

\* The fractions of make_timing_curve, in tenths.
Fractions == <<1, 2, 3, 4, 5, 6, 7, 8, 9>>

\* What a clock() difference around a call measures: the call and the number
\* of rows it was given (the seconds themselves depend on the machine).  X_train
\* and X_test are given by their numbers of rows.
Timed(op, rows) == [op |-> op, rows |-> rows]

InitPlot ==
    /\ self = None
    /\ pc = "idle"
    /\ call = "none"
    /\ args = <<>>
    /\ locals = <<>>
    /\ ret = None

GetMiddleFactors ==
    /\ pc = "idle"
    /\ \E n \in 1..MaxColumns :
         Returned("get_middle_factors", [n |-> n], Return(get_middle_factors(n)))

\* plot_distributions with compare_labels=False, up to the drawing.
PlotDistributions ==
    /\ pc = "idle"
    /\ \E num_cols \in 1..MaxColumns :
         Returned("plot_distributions", [num_cols |-> num_cols], subplot_grid(num_cols))

PlotViolinDistributions ==
    /\ pc = "idle"
    /\ \E num_cols \in 1..MaxColumns :
         Returned("plot_violin_distributions", [num_cols |-> num_cols],
                  subplot_grid(num_cols))

MakeTimingCurveCall ==
    /\ pc = "idle"
    /\ \E n_train \in 1..MaxTimingTens, n_test \in 1..MaxTimingTens :
         /\ pc' = "running"
         /\ call' = "make_timing_curve"
         /\ args' = [X_train |-> 10 * n_train, X_test |-> 10 * n_test]
         /\ locals' = [done |-> 0,
                       timing_df |-> [train |-> EmptyDict, test |-> EmptyDict]]
    /\ UNCHANGED <<self, ret>>

\* One iteration of the loop over the fractions: fit on X_train, timed, then
\* predict on X_test, timed.
TimingLoopStep ==
    /\ pc = "running" /\ call = "make_timing_curve"
    /\ locals.done < Len(Fractions)
    /\ LET fraction == Fractions[locals.done + 1]
       IN locals' =
            [locals EXCEPT
               !.timing_df.train = dict_set(@, fraction, Timed("fit", args.X_train)),
               !.timing_df.test = dict_set(@, fraction, Timed("predict", args.X_test)),
               !.done = @ + 1]
    /\ UNCHANGED <<self, pc, call, args, ret>>

\* After the loop: the table is written and plotted against
\* timing_df.index.values * 100, and returned.
MakeTimingCurveReturn ==
    /\ pc = "running" /\ call = "make_timing_curve"
    /\ locals.done = Len(Fractions)
    /\ pc' = "returned"
    /\ ret' = Return([timing_df |-> locals.timing_df,
                      data_sizes |-> [k \in 1..Len(Fractions) |-> Fractions[k] * 10]])
    /\ UNCHANGED <<self, call, args, locals>>

NextPlot ==
    \/ GetMiddleFactors
    \/ PlotDistributions
    \/ PlotViolinDistributions
    \/ MakeTimingCurveCall
    \/ TimingLoopStep
    \/ MakeTimingCurveReturn
    \/ Continue

SpecPlot == InitPlot /\ [][NextPlot]_vars

Divides(a, n) == n % a = 0

\* C8: for every n >= 1, get_middle_factors(n) is a pair (a, b) of positive
\* integers with a * b = n and a <= b, a being the largest divisor of n with
\* a * a <= n; and the plotting callers unpack it into a grid with one
\* subplot per column.
C8_MiddleFactors ==
    /\ (pc = "returned" /\ call = "get_middle_factors") =>
          /\ ret.value.kind = "tuple"
          /\ LET a == ret.value.items[1]
                 b == ret.value.items[2]
             IN /\ a >= 1 /\ b >= 1
                /\ a * b = args.n
                /\ a <= b
                /\ \A d \in 1..args.n :
                      (Divides(d, args.n) /\ d * d <= args.n) => d <= a
    /\ (pc = "returned"
        /\ call \in {"plot_distributions", "plot_violin_distributions"}) =>
          /\ ret.kind = "return"
          /\ ret.value.plotted = args.num_cols

\* C9: the table make_timing_curve returns has one 'train' and one 'test'
\* entry for each of the fractions 0.1, ..., 0.9, and the 'train' entry under
\* fraction f times a fit on the fraction f of the training data, the data
\* size plotted for it being 100 * f percent.
C9_TrainTimesFraction ==
    (pc = "returned" /\ call = "make_timing_curve") =>
        /\ DOMAIN ret.value.timing_df.train = 1..9
        /\ DOMAIN ret.value.timing_df.test = 1..9
        /\ \A k \in 1..9 :
              /\ ret.value.data_sizes[k] = 10 * k
              /\ ret.value.timing_df.train[k].op = "fit"
              /\ 10 * ret.value.timing_df.train[k].rows = k * args.X_train

====
